---- MODULE Spec2Model ----
(***************************************************************************)
(* A model of ubuntu_image_fetcher.py: the manifest store, the filename    *)
(* resolver, the HEAD probe, the streaming GET and the loop of main.       *)
(*                                                                         *)
(* Strings are sequences of one-character strings, so that the string      *)
(* functions of the program (startswith, split, strip, splitext, the       *)
(* sanitizer, int) are computed as the code computes them.  A byte content *)
(* is the first len bytes of one of a few byte streams that differ from    *)
(* their first byte on; the content of length 0 is the same for all.       *)
(***************************************************************************)
EXTENDS Integers, Sequences, FiniteSets, TLC

\* ------------------------------------------------------------ bounds
\* URL tokens on the input line of a run whose servers send short bodies.
MaxUrls == 2
\* URL tokens on the input line of a run whose servers send bodies up to the cap.
MaxBigUrls == 1
\* characters of the input line of a run that only reads its input
MaxLine == 4

\* ------------------------------------------------------------ constants
MAX_BYTES == 15 * 1024 * 1024
\* r.iter_content(chunk_size=8192)
ChunkSize == 8192

\* ------------------------------------------------------------ strings
\* None, as a value that no string of the program equals
None == <<"<None>">>

Lower == {"a","b","c","d","e","f","g","h","i","j","k","l","m",
          "n","o","p","q","r","s","t","u","v","w","x","y","z"}
Upper == {"A","B","C","D","E","F","G","H","I","J","K","L","M",
          "N","O","P","Q","R","S","T","U","V","W","X","Y","Z"}
DigitChars == <<"0","1","2","3","4","5","6","7","8","9">>
Digits == {DigitChars[k] : k \in 1..10}
\* str.isalnum() of one character (ASCII inputs)
IsAlnum(c) == c \in Lower \cup Upper \cup Digits
Whitespace == {" ", "\t", "\n", "\r"}

\* s[a:b] of Python, 1-based inclusive here
Slice(s, a, b) == IF a > b THEN << >> ELSE SubSeq(s, a, b)

StartsWith(s, p) == Len(s) >= Len(p) /\ SubSeq(s, 1, Len(p)) = p

\* s.find(sub): the first index at which sub occurs in s, 0 when it does not
Find(s, sub) ==
    LET hits == {k \in 1..(Len(s) - Len(sub) + 1) : SubSeq(s, k, k + Len(sub) - 1) = sub}
    IN  IF hits = {} THEN 0 ELSE CHOOSE k \in hits : \A j \in hits : k <= j

\* s.rfind(c) for one character: the last index of c in s, 0 when absent
RFind(s, c) ==
    LET hits == {k \in 1..Len(s) : s[k] = c}
    IN  IF hits = {} THEN 0 ELSE CHOOSE k \in hits : \A j \in hits : k >= j

\* s.strip(chars): drop leading and trailing characters that are in chars
Strip(s, chars) ==
    LET keep == {k \in 1..Len(s) : s[k] \notin chars}
    IN  IF keep = {} THEN << >>
        ELSE LET lo == CHOOSE k \in keep : \A j \in keep : k <= j
                 hi == CHOOSE k \in keep : \A j \in keep : k >= j
             IN  SubSeq(s, lo, hi)

\* str(n) for n >= 0
RECURSIVE Str(_)
Str(n) == IF n < 10 THEN <<DigitChars[n + 1]>>
          ELSE Str(n \div 10) \o <<DigitChars[(n % 10) + 1]>>

DigitVal(c) == CHOOSE k \in 0..9 : DigitChars[k + 1] = c

\* what ParseInt gives where int(s) raises ValueError
ValueError == 0 - 1

\* int(s): the value of a string of decimal digits; ValueError otherwise
RECURSIVE IntOfDigits(_)
IntOfDigits(s) == IF s = << >> THEN 0
                  ELSE 10 * IntOfDigits(SubSeq(s, 1, Len(s) - 1)) + DigitVal(s[Len(s)])

ParseInt(s) ==
    LET t == Strip(s, Whitespace)
    IN  IF t # << >> /\ \A k \in 1..Len(t) : t[k] \in Digits
        THEN IntOfDigits(t) ELSE ValueError

\* ------------------------------------------------------------ paths
\* A path is written relative to FETCH_DIR; "/" separates its components.
Sep == "/"

\* os.path.basename
Basename(p) == Slice(p, RFind(p, Sep) + 1, Len(p))

\* os.path.splitext: the index of the dot that starts the extension, 0 when the
\* path has no extension (leading dots of the last component do not start one)
ExtDot(p) ==
    LET sepIndex == RFind(p, Sep)
        dotIndex == RFind(p, ".")
    IN  IF dotIndex > sepIndex
           /\ \E k \in (sepIndex + 1)..(dotIndex - 1) : p[k] # "."
        THEN dotIndex ELSE 0

SplitBase(p) == IF ExtDot(p) = 0 THEN p ELSE Slice(p, 1, ExtDot(p) - 1)
SplitExt(p)  == IF ExtDot(p) = 0 THEN << >> ELSE Slice(p, ExtDot(p), Len(p))

\* MANIFEST = os.path.join(FETCH_DIR, "_manifest.json")
MANIFEST == <<"_","m","a","n","i","f","e","s","t",".","j","s","o","n">>


\* os.path.exists(os.path.join(FETCH_DIR, p)) on the directory d
Exists(d, p) == p \in DOMAIN d

\* ------------------------------------------------------------ filename resolver
\* urlparse(url).path: what follows the network location, up to "?" or "#"
UrlPath(url) ==
    LET k    == Find(url, <<":", "/", "/">>)
        rest == IF k = 0 THEN url ELSE Slice(url, k + 3, Len(url))
        s    == IF k = 0 THEN 1 ELSE Find(rest, <<Sep>>)
        tail == IF s = 0 THEN << >> ELSE Slice(rest, s, Len(rest))
        cuts == {j \in 1..Len(tail) : tail[j] \in {"?", "#"}}
        stop == IF cuts = {} THEN Len(tail) + 1 ELSE CHOOSE j \in cuts : \A m \in cuts : j <= m
    IN  Slice(tail, 1, stop - 1)

\* The percent escapes unquote decodes, of those the modelled inputs use.
Escapes == {<< <<"2","0">>, " " >>, << <<"2","E">>, "." >>, << <<"2","8">>, "(" >>,
            << <<"2","9">>, ")" >>, << <<"2","F">>, Sep >>}

\* urllib.parse.unquote
RECURSIVE Unquote(_)
Unquote(s) ==
    IF s = << >> THEN << >>
    ELSE IF s[1] = "%" /\ Len(s) >= 3 /\ \E e \in Escapes : e[1] = SubSeq(s, 2, 3)
         THEN <<(CHOOSE e \in Escapes : e[1] = SubSeq(s, 2, 3))[2]>> \o Unquote(Slice(s, 4, Len(s)))
         ELSE <<s[1]>> \o Unquote(Tail(s))

\* the characters line 48 keeps
SafeChar(c) == IsAlnum(c) \/ c \in {"-", "_", ".", " "}

Sanitize(name) == SelectSeq(name, SafeChar)

\* f"downloaded_{int(time.time()*1000)}.jpg" and f"image_{...}.jpg" at clock value t
DownloadedName(t) == <<"d","o","w","n","l","o","a","d","e","d","_">> \o Str(t) \o <<".","j","p","g">>
ImageName(t) == <<"i","m","a","g","e","_">> \o Str(t) \o <<".","j","p","g">>

\* safe_filename_from_url(url), the clock reading t
safe_filename_from_url(url, t) ==
    LET name0 == Strip(Unquote(Basename(UrlPath(url))), Whitespace)
        name1 == IF name0 = << >> \/ RFind(name0, ".") = 0 THEN DownloadedName(t) ELSE name0
        name2 == Sanitize(name1)
    IN  IF name2 # << >> THEN name2 ELSE ImageName(t)

FilenameEq == <<"f","i","l","e","n","a","m","e","=">>

\* filename_from_headers(resp): cd is the Content-Disposition header ("" when absent)
filename_from_headers(cd) ==
    LET k == Find(cd, FilenameEq)
    IN  IF k = 0 THEN None
        ELSE LET part0 == Slice(cd, k + Len(FilenameEq), Len(cd))
                 part1 == Strip(Strip(part0, Whitespace), {";"})
                 part2 == Strip(Strip(part1, {"\""}), {"'"})
             IN  IF part2 # << >> THEN part2 ELSE None

\* the loop of ensure_unique_path from counter i on
RECURSIVE UniqueFrom(_, _, _, _, _)
UniqueFrom(d, path, base, ext, i) ==
    IF Exists(d, path)
    THEN UniqueFrom(d, base \o <<" ", "(">> \o Str(i) \o <<")">> \o ext, base, ext, i + 1)
    ELSE path

\* ensure_unique_path(path) on the directory d
ensure_unique_path(d, path) == UniqueFrom(d, path, SplitBase(path), SplitExt(path), 1)

ImagePrefix == <<"i","m","a","g","e","/">>

\* a gate that lets every Content-Type through
is_image_response_any(ctype) == TRUE

\* is_image_response(resp): ctype is the Content-Type header ("" when absent)
is_image_response(ctype) == StartsWith(ctype, ImagePrefix)

\* ------------------------------------------------------------ contents and digests
\* The byte string of length 0.
Empty == [kind |-> "bytes", s |-> "-", len |-> 0]

\* The first n bytes of stream s.
Bytes(s, n) == IF n = 0 THEN Empty ELSE [kind |-> "bytes", s |-> s, len |-> n]

\* hashlib.sha256 over a byte string: distinct byte strings, distinct digests
Sha256(c) == <<"sha256", c.s, c.len>>

\* ------------------------------------------------------------ manifest store
\* {"hashes": {}, "files": []}
EmptyManifest == [hashes |-> << >>, files |-> << >>]

\* key in m, for a dict m
HasKey(m, key) == key \in DOMAIN m

HasHash(m, h) == \E k \in 1..Len(m.hashes) : m.hashes[k][1] = h

\* manifest["hashes"][h]
NameOf(m, h) == (CHOOSE e \in {m.hashes[k] : k \in 1..Len(m.hashes)} : e[1] = h)[2]

\* a record step that forgets manifest["files"]
RecordHashOnly(m, h, name) ==
    [hashes |-> Append(m.hashes, <<h, name>>), files |-> m.files]

\* manifest["hashes"][h] = name; manifest["files"].append(name)
Record(m, h, name) ==
    [hashes |-> IF HasHash(m, h)
                THEN [k \in 1..Len(m.hashes) |->
                        IF m.hashes[k][1] = h THEN <<h, name>> ELSE m.hashes[k]]
                ELSE Append(m.hashes, <<h, name>>),
     files  |-> Append(m.files, name)]

\* json.dump(m): the text of a JSON object with the two members
JsonDump(m) == [kind |-> "json", doc |-> << <<"hashes", m.hashes>>, <<"files", m.files>> >>]

\* What open(MANIFEST, "w") leaves until the dump is written and closed: a
\* truncated text that no JSON parser accepts.
Truncated == [kind |-> "truncated"]

\* json.load accepts the text
IsJsonText(c) == c.kind = "json"

Member(doc, key) == (CHOOSE e \in {doc[k] : k \in 1..Len(doc)} : e[1] = key)[2]

\* json.load of the text of a JSON object: the dict of its members
JsonLoad(c) == [key \in {c.doc[k][1] : k \in 1..Len(c.doc)} |-> Member(c.doc, key)]

\* a loader without its except clause: what json.load raises comes out
load_manifest_unguarded(d) ==
    IF Exists(d, MANIFEST)
    THEN IF IsJsonText(d[MANIFEST])
         THEN JsonLoad(d[MANIFEST])
         ELSE [kind |-> "raised"]
    ELSE EmptyManifest

\* load_manifest() on the directory d
load_manifest(d) ==
    IF Exists(d, MANIFEST)
    THEN IF IsJsonText(d[MANIFEST])
         THEN JsonLoad(d[MANIFEST])
         ELSE EmptyManifest
    ELSE EmptyManifest

\* ------------------------------------------------------------ the directory
NoFiles == [p \in {} |-> Empty]

Put(d, p, c) == [q \in DOMAIN d \cup {p} |-> IF q = p THEN c ELSE d[q]]

Remove(d, p) == [q \in DOMAIN d \ {p} |-> d[q]]


\* ------------------------------------------------------------ inputs
\* the URL of the input lines of a fetching run
UrlA == <<"h","t","t","p",":","/","/","h","/","a",".","j">>

\* readings of time.time()*1000
Times == {7}

\* Content-Type headers
CtImage == <<"i","m","a","g","e","/","p">>
CtText  == <<"t","e","x","t","/","h">>
CtNear  == <<"I","m","a","g","e","/","p">>
CTypes == {CtImage, CtText, CtNear, << >>}

\* Content-Disposition headers of the GET response (<< >>: no header)
CdManifest == <<"a",";"," ","f","i","l","e","n","a","m","e","=","\"","_","m","a","n","i","f","e","s","t",".","j","s","o","n","\"">>
CdUnsafe == <<"a",";"," ","f","i","l","e","n","a","m","e","=","a","*",".","j">>
Dispositions == {<< >>, CdManifest, CdUnsafe}
\* those sent with a body at the cap
BigDispositions == {<< >>}

\* Content-Length headers of the HEAD response (None: no header)
CLengths == {None, << >>, <<"1","2">>, <<"x">>, Str(MAX_BYTES), Str(MAX_BYTES + 1)}

\* byte streams the servers send
Streams == {"A", "B"}

\* body lengths: short bodies, and bodies at the cap
ShortLens == {ChunkSize + 1}
BigLens == {MAX_BYTES, MAX_BYTES + 1}

\* byte counts received at which a transfer may break
FailAt == {0, ChunkSize}

\* the text {"files": []}: a JSON object that has no "hashes" member
NoHashesText == [kind |-> "json", doc |-> << <<"files", << >> >> >>]
NoHashesDir == Put(NoFiles, MANIFEST, NoHashesText)

\* a manifest file that open(MANIFEST, "r") cannot open or decode
Unreadable == [kind |-> "unreadable"]

\* directories a fetching run may start in: the empty one, one left by a run that
\* stored a file, and one whose manifest file holds JSON of another shape
Stored0 == [hashes |-> << <<Sha256(Bytes("A", ChunkSize + 1)), Sanitize(Basename(UrlPath(UrlA)))>> >>,
            files  |-> << Sanitize(Basename(UrlPath(UrlA))) >>]
StartDirs ==
    { NoFiles,
      Put(Put(NoFiles, Sanitize(Basename(UrlPath(UrlA))), Bytes("A", ChunkSize + 1)), MANIFEST, JsonDump(Stored0)),
      NoHashesDir }

\* directories a run that only reads its input may start in: those, one whose
\* manifest was left truncated and one whose manifest cannot be read
InputDirs ==
    StartDirs \cup
    { Put(Put(NoFiles, Sanitize(Basename(UrlPath(UrlA))), Bytes("A", ChunkSize + 1)), MANIFEST, Truncated),
      Put(NoFiles, MANIFEST, Unreadable) }

\* ------------------------------------------------------------ the input line
\* str.split() of s from index k on: parts holds the runs of characters that
\* are not whitespace read so far, cur the run being read
RECURSIVE WhitespaceParts(_, _, _, _)
WhitespaceParts(s, k, parts, cur) ==
    IF k > Len(s) THEN (IF cur = << >> THEN parts ELSE Append(parts, cur))
    ELSE IF s[k] \in Whitespace
         THEN WhitespaceParts(s, k + 1, IF cur = << >> THEN parts ELSE Append(parts, cur), << >>)
         ELSE WhitespaceParts(s, k + 1, parts, Append(cur, s[k]))

\* str.split(): the maximal runs of characters that are not whitespace
SplitWhitespace(s) == WhitespaceParts(s, 1, << >>, << >>)

\* str.split(",") of s from index k on: the pieces between the commas, empty
\* ones included
RECURSIVE CommaParts(_, _, _, _)
CommaParts(s, k, parts, cur) ==
    IF k > Len(s) THEN Append(parts, cur)
    ELSE IF s[k] = ","
         THEN CommaParts(s, k + 1, Append(parts, cur), << >>)
         ELSE CommaParts(s, k + 1, parts, Append(cur, s[k]))

SplitComma(s) == CommaParts(s, 1, << >>, << >>)

NonEmpty(u) == Strip(u, Whitespace) # << >>

\* [u.strip() for u in us if u.strip()]
StripAll(us) == [k \in 1..Len(SelectSeq(us, NonEmpty)) |-> Strip(SelectSeq(us, NonEmpty)[k], Whitespace)]

\* the comprehension of line 150 over the parts from part k on
RECURSIVE TokensFrom(_, _)
TokensFrom(parts, k) ==
    IF k > Len(parts) THEN << >>
    ELSE StripAll(SplitComma(parts[k])) \o TokensFrom(parts, k + 1)

\* a tokenizer that splits on whitespace only
TokenizeWhitespace(raw) == SplitWhitespace(raw)

\* line 150: the URL tokens of the stripped input line raw (raw.split() is
\* computed once, then walked)
Tokenize(raw) == CHOOSE us \in {TokensFrom(parts, 1) : parts \in {SplitWhitespace(raw)}} : TRUE

\* input lines of a fetching run: n URLs, separated by a comma and a space
\* (n = 0: a blank line)
RECURSIVE InputLine(_)
InputLine(n) == IF n = 0 THEN <<" ">>
                ELSE IF n = 1 THEN UrlA
                ELSE InputLine(n - 1) \o <<",", " ">> \o UrlA

\* input lines of a run that only reads its input: every line of up to MaxLine
\* of these characters
InputChars == {"u", " ", ",", "\t"}
RawLines == UNION {[1..n -> InputChars] : n \in 0..MaxLine}

\* ------------------------------------------------------------ state
VARIABLES
    disk,       \* the output directory: path -> content of the file
    big,        \* whether the servers of this run send bodies at the cap
    raw,        \* the line input() returns
    start,      \* the directory the run started in
    pc,         \* where the program is
    urls,       \* main's list of URL tokens
    i,          \* index of the URL being processed
    manifest,   \* main's manifest dict, shared by the attempts
    head,       \* the outcome of the HEAD probe of the current attempt
    ctype,      \* Content-Type of the GET response of the current attempt
    fname,      \* the candidate file name of the current attempt
    body,       \* the body of the GET response being streamed
    out_path,   \* out_path of the current attempt
    total,      \* total of the streaming loop
    hacc,       \* the bytes fed to h so far
    outcomes,   \* how each finished attempt ended
    pre         \* the directory and the manifest when the current attempt began

vars == <<disk, big, raw, start, pc, urls, i, manifest, head, ctype, fname, body, out_path,
          total, hacc, outcomes, pre>>

NoHead == [kind |-> "none"]
NoBody == [kind |-> "none"]
NoManifest == [kind |-> "unloaded"]
\* no body was read to its end
NoBytes == [kind |-> "none"]

\* the state of the other variables when main begins in the directory disk
InitRest ==
    /\ start = disk
    /\ pc = "input"
    /\ urls = << >>
    /\ i = 1
    /\ manifest = NoManifest
    /\ head = NoHead
    /\ ctype = None
    /\ fname = None
    /\ body = NoBody
    /\ out_path = None
    /\ total = 0
    /\ hacc = Empty
    /\ outcomes = << >>
    /\ pre = [disk |-> disk, manifest |-> manifest]

locals == <<head, ctype, fname, body, out_path, total, hacc>>

UrlBound == IF big THEN MaxBigUrls ELSE MaxUrls

Init ==
    /\ disk \in StartDirs
    /\ big \in BOOLEAN
    /\ raw \in {InputLine(n) : n \in 0..UrlBound}
    /\ InitRest

\* ------------------------------------------------------------ main

\* lines 144-147: the input line is empty once stripped
MainExitEmpty ==
    /\ pc = "input"
    /\ Strip(raw, Whitespace) = << >>
    /\ pc' = "exit_empty"
    /\ UNCHANGED <<disk, big, raw, start, urls, i, manifest, locals, outcomes, pre>>

\* lines 144-151: the input line is split into tokens; the manifest is loaded
MainInput ==
    /\ pc = "input"
    /\ Strip(raw, Whitespace) # << >>
    /\ urls' = Tokenize(Strip(raw, Whitespace))
    /\ manifest' = load_manifest(disk)
    /\ i' = 1
    /\ pc' = "loop"
    /\ UNCHANGED <<disk, big, raw, start, locals, outcomes, pre>>

\* lines 153-154: the next URL is handed to respectful_fetch
CallFetch ==
    /\ pc = "loop"
    /\ i <= Len(urls)
    /\ pc' = "makedirs"
    /\ pre' = [disk |-> disk, manifest |-> manifest]
    /\ head' = NoHead
    /\ ctype' = None
    /\ fname' = None
    /\ body' = NoBody
    /\ out_path' = None
    /\ total' = 0
    /\ hacc' = Empty
    /\ UNCHANGED <<disk, big, raw, start, urls, i, manifest, outcomes>>

\* line 156: the loop is over and main returns
MainEnd ==
    /\ pc = "loop"
    /\ i > Len(urls)
    /\ pc' = "done"
    /\ UNCHANGED <<disk, big, raw, start, urls, i, manifest, locals, outcomes, pre>>

\* the attempt ends, and a failed one ends the loop of main with it
ReturnStop(o, got) ==
    /\ outcomes' = Append(outcomes, [o |-> o, got |-> got, path |-> out_path,
                                      fname |-> fname, url |-> urls[i]])
    /\ i' = i + 1
    /\ pc' = IF o = "failed" THEN "done" ELSE "loop"
    /\ UNCHANGED body
    /\ total' = 0
    /\ hacc' = Empty

\* respectful_fetch returns (or its except clauses have printed): the attempt
\* ends with outcome o, having read the whole body got (None: it did not)
Return(o, got) ==
    /\ outcomes' = Append(outcomes, [o |-> o, got |-> got, path |-> out_path,
                                      fname |-> fname, url |-> urls[i]])
    /\ i' = i + 1
    /\ pc' = "loop"
    /\ UNCHANGED body
    /\ total' = 0
    /\ hacc' = Empty


\* ------------------------------------------------------------ respectful_fetch
\* line 75: os.makedirs(FETCH_DIR, exist_ok=True) succeeds
Makedirs ==
    /\ pc = "makedirs"
    /\ pc' = "head"
    /\ UNCHANGED <<disk, big, raw, start, urls, i, manifest, locals, outcomes, pre>>

\* line 75 raises OSError, caught at line 136
MakedirsFail ==
    /\ pc = "makedirs"
    /\ Return("failed", NoBytes)
    /\ UNCHANGED <<disk, big, raw, start, urls, manifest, head, ctype, fname, out_path, pre>>

\* what requests.head can give: a RequestException, a response with an error
\* status, or a success response with its two headers
HeadResults ==
    { [kind |-> "error"], [kind |-> "resp", ok |-> FALSE, ctype |-> << >>, clen |-> None] }
    \cup { [kind |-> "resp", ok |-> TRUE, ctype |-> ct, clen |-> cl] : ct \in CTypes, cl \in CLengths }

\* line 85, "clen and ...": the header is present and not the empty string
Truthy(clen) == clen # None /\ clen # << >>

\* lines 78-90: what the probe r leads to: the GET, a skip, or an exception that
\* leaves the inner try (int(clen) raising ValueError)
HeadVerdict(r) ==
    IF r.kind = "error" THEN "get"
    ELSE IF ~r.ok THEN "get"
    ELSE IF ~StartsWith(r.ctype, ImagePrefix) THEN "not_image"
    ELSE IF Truthy(r.clen) /\ ParseInt(r.clen) = ValueError THEN "failed"
    ELSE IF Truthy(r.clen) /\ ParseInt(r.clen) > MAX_BYTES THEN "too_large"
    ELSE "get"

\* lines 78-90: the HEAD probe
Probe ==
    /\ pc = "head"
    /\ \E r \in HeadResults :
         /\ head' = r
         /\ IF HeadVerdict(r) = "get"
            THEN /\ pc' = "get"
                 /\ UNCHANGED <<i, body, total, hacc, outcomes>>
            ELSE Return(HeadVerdict(r), NoBytes)
    /\ UNCHANGED <<disk, big, raw, start, urls, manifest, ctype, fname, out_path, pre>>

\* lines 92-93: requests.get raises, or raise_for_status does; caught at line 134
GetFail ==
    /\ pc = "get"
    /\ head' = NoHead
    /\ Return("failed", NoBytes)
    /\ UNCHANGED <<disk, big, raw, start, urls, manifest, ctype, fname, out_path, pre>>

\* lines 92-96: the response is not an image
GetNotImage ==
    /\ pc = "get"
    /\ \E ct \in CTypes :
         /\ ~is_image_response(ct)
         /\ ctype' = ct
    /\ head' = NoHead
    /\ Return("not_image", NoBytes)
    /\ UNCHANGED <<disk, big, raw, start, urls, manifest, fname, out_path, pre>>

BodyLens == IF big THEN BigLens ELSE ShortLens
BodyDispositions == IF big THEN BigDispositions ELSE Dispositions

\* lines 92-100: the response is an image; the file name and out_path are decided
GetImage ==
    /\ pc = "get"
    /\ \E ct \in CTypes, cd \in BodyDispositions, t \in Times, s \in Streams, n \in BodyLens :
         /\ is_image_response(ct)
         /\ ctype' = ct
         /\ fname' = IF filename_from_headers(cd) # None
                     THEN filename_from_headers(cd)
                     ELSE safe_filename_from_url(urls[i], t)
         /\ out_path' = ensure_unique_path(disk, fname')
         /\ body' = [kind |-> "body", s |-> s, len |-> n]
    /\ head' = NoHead
    /\ pc' = "open"
    /\ UNCHANGED <<disk, big, raw, start, urls, i, manifest, total, hacc, outcomes, pre>>

\* line 105: open(out_path, "wb") creates the file, or truncates the one there
Open ==
    /\ pc = "open"
    /\ disk' = Put(disk, out_path, Empty)
    /\ pc' = "stream"
    /\ UNCHANGED <<big, raw, start, urls, i, manifest, locals, outcomes, pre>>

\* line 105 raises OSError, caught at line 136
OpenFail ==
    /\ pc = "open"
    /\ Return("failed", NoBytes)
    /\ UNCHANGED <<disk, big, raw, start, urls, manifest, head, ctype, fname, out_path, pre>>

\* the cap test with >= for >
OverCapAtOrOver(t) == t >= MAX_BYTES

\* line 110: total > MAX_BYTES
OverCap(t) == t > MAX_BYTES

Min(a, b) == IF a < b THEN a ELSE b

\* lines 106-108: iter_content delivers an empty chunk, which the loop skips
StreamEmptyChunk ==
    /\ pc = "stream"
    /\ UNCHANGED vars

\* lines 106-116: iter_content delivers the next chunk of the body
StreamChunk ==
    /\ pc = "stream"
    /\ total < body.len
    /\ LET k == Min(ChunkSize, body.len - total)
       IN  IF OverCap(total + k)
           THEN /\ disk' = Remove(disk, out_path)
                /\ Return("too_large", NoBytes)
           ELSE /\ total' = total + k
                /\ hacc' = Bytes(body.s, hacc.len + k)
                /\ disk' = Put(disk, out_path, Bytes(body.s, disk[out_path].len + k))
                /\ UNCHANGED <<pc, i, body, outcomes>>
    /\ UNCHANGED <<big, raw, start, urls, manifest, head, ctype, fname, out_path, pre>>

\* line 106 raises a RequestException in the middle of the body; the file is
\* closed by its with block and the exception is caught at line 134
StreamError ==
    /\ pc = "stream"
    /\ total \in FailAt
    /\ Return("failed", NoBytes)
    /\ UNCHANGED <<disk, big, raw, start, urls, manifest, head, ctype, fname, out_path, pre>>

\* lines 106, 118: the body has been read to its end; the file is closed
StreamEnd ==
    /\ pc = "stream"
    /\ total = body.len
    /\ pc' = "hash"
    /\ UNCHANGED <<disk, big, raw, start, urls, i, manifest, locals, outcomes, pre>>

\* line 121: manifest["hashes"] raises KeyError, caught at line 136
LookupFail ==
    /\ pc = "hash"
    /\ ~HasKey(manifest, "hashes")
    /\ Return("failed", hacc)
    /\ UNCHANGED <<disk, big, raw, start, urls, manifest, head, ctype, fname, out_path, pre>>

\* a duplicate skip that leaves the new file in the directory
DuplicateSkipKeep ==
    /\ pc = "hash"
    /\ HasKey(manifest, "hashes")
    /\ HasHash(manifest, Sha256(hacc))
    /\ Return("duplicate", hacc)
    /\ UNCHANGED <<disk, big, raw, start, urls, manifest, head, ctype, fname, out_path, pre>>

\* lines 118-124: the digest is on record; the new file is deleted
DuplicateSkip ==
    /\ pc = "hash"
    /\ HasKey(manifest, "hashes")
    /\ HasHash(manifest, Sha256(hacc))
    /\ disk' = Remove(disk, out_path)
    /\ Return("duplicate", hacc)
    /\ UNCHANGED <<big, raw, start, urls, manifest, head, ctype, fname, out_path, pre>>

\* lines 118-128: the digest is new; it is recorded in the manifest in memory
RecordNew ==
    /\ pc = "hash"
    /\ HasKey(manifest, "hashes")
    /\ ~HasHash(manifest, Sha256(hacc))
    /\ manifest' = Record(manifest, Sha256(hacc), Basename(out_path))
    /\ pc' = "save"
    /\ UNCHANGED <<disk, big, raw, start, urls, i, locals, outcomes, pre>>

\* lines 29-30: save_manifest opens the manifest file for writing, which empties it
SaveOpen ==
    /\ pc = "save"
    /\ disk' = Put(disk, MANIFEST, Truncated)
    /\ pc' = "dump"
    /\ UNCHANGED <<big, raw, start, urls, i, manifest, locals, outcomes, pre>>

\* line 30 raises OSError, caught at line 136
SaveOpenFail ==
    /\ pc = "save"
    /\ Return("failed", hacc)
    /\ UNCHANGED <<disk, big, raw, start, urls, manifest, head, ctype, fname, out_path, pre>>

\* lines 31, 131-132: json.dump writes the manifest, the file is closed and
\* respectful_fetch reports success
SaveDump ==
    /\ pc = "dump"
    /\ disk' = Put(disk, MANIFEST, JsonDump(manifest))
    /\ Return("stored", hacc)
    /\ UNCHANGED <<big, raw, start, urls, manifest, head, ctype, fname, out_path, pre>>

\* line 31 raises OSError (the device is full), caught at line 136
SaveDumpFail ==
    /\ pc = "dump"
    /\ Return("failed", hacc)
    /\ UNCHANGED <<disk, big, raw, start, urls, manifest, head, ctype, fname, out_path, pre>>

\* the process is killed: at any step outside the streaming loop, and in the
\* loop at the byte counts at which a transfer may break
Crash ==
    /\ pc \notin {"done", "exit_empty", "crashed"}
    /\ pc = "stream" => total \in FailAt
    /\ pc' = "crashed"
    /\ head' = NoHead
    /\ body' = NoBody
    /\ total' = 0
    /\ hacc' = Empty
    /\ UNCHANGED <<disk, big, raw, start, urls, i, manifest, ctype, fname, out_path, outcomes, pre>>

Run ==
    \/ MainExitEmpty
    \/ MainInput
    \/ CallFetch
    \/ MainEnd
    \/ Makedirs
    \/ MakedirsFail
    \/ Probe
    \/ GetFail
    \/ GetNotImage
    \/ GetImage
    \/ Open
    \/ OpenFail
    \/ StreamEmptyChunk
    \/ StreamChunk
    \/ StreamError
    \/ StreamEnd
    \/ LookupFail
    \/ DuplicateSkip
    \/ RecordNew
    \/ SaveOpen
    \/ SaveOpenFail
    \/ SaveDump
    \/ SaveDumpFail

Next == Run \/ Crash

Spec == Init /\ [][Next]_vars


\* The program started in an empty directory, or in one whose manifest file has
\* another shape, and never killed: every step that is enabled is eventually
\* taken, as the single thread runs on and every network call is bounded by its
\* timeout.
InitLive == Init /\ start \in {NoFiles, NoHashesDir}

SpecLive == InitLive /\ [][Run]_vars /\ WF_vars(Run)

\* main up to the loop, on every input line of RawLines
InitInput ==
    /\ disk \in InputDirs
    /\ big = FALSE
    /\ raw \in RawLines
    /\ InitRest

NextInput == MainExitEmpty \/ MainInput

SpecInput == InitInput /\ [][NextInput]_vars

\* ------------------------------------------------------------ properties
\* the attempt that ended last, in the states between two attempts
AttemptEnded == pc \in {"loop", "done"} /\ outcomes # << >>
Last == outcomes[Len(outcomes)]

Entries(m) == IF HasKey(m, "hashes") THEN {m.hashes[k] : k \in 1..Len(m.hashes)} ELSE {}
\* m has the two members of a manifest
IsManifest(m) == HasKey(m, "hashes") /\ HasKey(m, "files")
Stored == {k \in 1..Len(outcomes) : outcomes[k].o = "stored"}
Holding(c) == {p \in DOMAIN disk : disk[p] = c}


\* C1: idempotent dedup.  When the attempt before the last stored content X and
\* the last attempt read the same bytes X to their end, the last attempt ended
\* as a duplicate, the directory is as it was before that attempt, the number
\* of keys of manifest["hashes"] is unchanged, and exactly one file holds X.
C1_IdempotentDedup ==
    (AttemptEnded /\ Len(outcomes) >= 2
        /\ outcomes[Len(outcomes) - 1].o = "stored"
        /\ Last.got = outcomes[Len(outcomes) - 1].got)
    => /\ Last.o = "duplicate"
       /\ disk = pre.disk
       /\ Len(manifest.hashes) = Len(pre.manifest.hashes)
       /\ Cardinality(Holding(Last.got)) = 1

\* C2: size-cap boundary.  The file being written never holds more than
\* MAX_BYTES bytes and the loop never goes on with total over MAX_BYTES; a
\* streaming attempt ends as too large exactly when its body is longer than
\* MAX_BYTES (a body of exactly MAX_BYTES reaches the digest check), and after
\* the abort the output file is gone and the manifest and the directory are as
\* they were before the attempt.
C2_SizeCapBoundary ==
    /\ pc \in {"stream", "hash", "save", "dump"}
         => /\ total <= MAX_BYTES
            /\ pc = "stream" => Exists(disk, out_path) /\ disk[out_path].len = total
            /\ pc # "stream" => total = body.len
    /\ \A p \in DOMAIN disk : disk[p].kind = "bytes" => disk[p].len <= MAX_BYTES
    /\ (AttemptEnded /\ Last.path # None /\ Last.o = "too_large")
         => /\ body.len > MAX_BYTES
            /\ ~Exists(disk, out_path)
            /\ disk = pre.disk
            /\ manifest = pre.manifest
    /\ (AttemptEnded /\ Last.path # None /\ body.len > MAX_BYTES)
         => Last.o \in {"too_large", "failed"} /\ Last.got = NoBytes

C2_Witness ==
    /\ AttemptEnded
    /\ Last.o = "too_large"
    /\ Last.path # None
    /\ body.len = MAX_BYTES + 1
    /\ ~Exists(disk, out_path)

\* C3: content-type gate.  Before the GET response is in, and in every state of
\* an attempt whose GET response has a Content-Type that does not start with
\* "image/", the directory and the manifest are as they were when the attempt
\* began: no file is created, nothing is recorded.
C3_ContentTypeGate ==
    /\ pc \in {"makedirs", "head", "get"} => disk = pre.disk /\ manifest = pre.manifest
    /\ (ctype # None /\ ~StartsWith(ctype, ImagePrefix))
         => /\ disk = pre.disk
            /\ manifest = pre.manifest
            /\ out_path = None
            /\ AttemptEnded => Last.o = "not_image"

C3_Witness ==
    /\ AttemptEnded
    /\ Last.o = "not_image"
    /\ ctype = CtNear
    /\ disk = pre.disk


\* C4: filename uniqueness.  The path an attempt opens for writing does not
\* exist when it is opened, and two stored files of different contents whose
\* candidate name was the same are two different files of the directory, each
\* still holding the content stored in it.
C4_FilenameUniqueness ==
    /\ pc = "open" => ~Exists(disk, out_path)
    /\ \A j \in Stored, k \in Stored :
         (j < k /\ outcomes[j].fname = outcomes[k].fname /\ outcomes[j].got # outcomes[k].got)
         => /\ outcomes[j].path # outcomes[k].path
            /\ Exists(disk, outcomes[j].path) /\ disk[outcomes[j].path] = outcomes[j].got
            /\ Exists(disk, outcomes[k].path) /\ disk[outcomes[k].path] = outcomes[k].got

\* C5: manifest durability.  At the end of a run that began with no manifest
\* file and in which N attempts ended as stored, load_manifest gives the
\* manifest in memory, with N entries in "files" and N keys in "hashes".
C5_ManifestDurability ==
    (pc = "done" /\ ~Exists(start, MANIFEST))
    => /\ load_manifest(disk) = manifest
       /\ Len(load_manifest(disk).files) = Cardinality(Stored)
       /\ Len(load_manifest(disk).hashes) = Cardinality(Stored)

\* C6: crash durability.  After a kill at any point of a run, load_manifest
\* gives a manifest that holds every entry the run loaded at its start and
\* every entry of an attempt that ended as stored.
C6_CrashDurability ==
    (pc = "crashed" /\ manifest # NoManifest)
    => /\ Entries(load_manifest(start)) \subseteq Entries(load_manifest(disk))
       /\ \A k \in Stored :
            <<Sha256(outcomes[k].got), Basename(outcomes[k].path)>> \in Entries(load_manifest(disk))

\* C7: manifest consistency.  In every state of a run that loaded an empty or
\* consistent manifest, "files" lists, in order, exactly the values of
\* "hashes" (no value of "hashes" is missing from "files", no name of "files"
\* is without its key), and an attempt that ended as stored added one entry to
\* each.
C7_ManifestConsistency ==
    IsManifest(manifest)
    => /\ Len(manifest.hashes) = Len(manifest.files)
       /\ \A k \in 1..Len(manifest.hashes) : manifest.hashes[k][2] = manifest.files[k]
       /\ \A j \in 1..Len(manifest.hashes), k \in 1..Len(manifest.hashes) :
            manifest.hashes[j][1] = manifest.hashes[k][1] => j = k
       /\ (AttemptEnded /\ Last.o = "stored")
            => /\ Len(manifest.hashes) = Len(pre.manifest.hashes) + 1
               /\ Len(manifest.files) = Len(pre.manifest.files) + 1
               /\ manifest.files[Len(manifest.files)] = Basename(Last.path)
               /\ manifest.hashes[Len(manifest.hashes)] = <<Sha256(Last.got), Basename(Last.path)>>

C7_Witness ==
    /\ AttemptEnded
    /\ Last.o = "stored"
    /\ Len(manifest.files) = 2
    /\ manifest.files[1] # manifest.files[2]

\* C8: hash-to-file invariant.  Between the attempts of a run that began in an
\* empty directory, every pair (h, name) of manifest["hashes"] names a file of
\* the directory whose bytes have digest h.
C8_HashToFile ==
    (pc \in {"loop", "done"} /\ start = NoFiles)
    => \A e \in Entries(manifest) :
         /\ Exists(disk, e[2])
         /\ disk[e[2]].kind = "bytes"
         /\ Sha256(disk[e[2]]) = e[1]

\* C10: the probe is advisory.  Once the probe has answered, the GET follows
\* whenever the probe raised or answered with an error status, and the attempt
\* ends without a GET only when the probe succeeded and declared a Content-Type
\* that is not an image or a Content-Length greater than MAX_BYTES.
C10_ProbeAdvisory ==
    head # NoHead
    => /\ (head.kind = "error" \/ ~head.ok) => pc = "get"
       /\ pc # "get"
            => /\ head.kind = "resp" /\ head.ok
               /\ \/ ~StartsWith(head.ctype, ImagePrefix)
                  \/ Truthy(head.clen) /\ ParseInt(head.clen) > MAX_BYTES


OutcomeKinds == {"stored", "duplicate", "not_image", "too_large", "failed"}

C11_RejectionsNoTrace ==
    (AttemptEnded /\ Last.o \in {"not_image", "too_large", "duplicate"})
    => /\ manifest = pre.manifest
       /\ disk = pre.disk
       /\ Last.path # None => ~Exists(disk, Last.path)

C11_Witness ==
    /\ AttemptEnded
    /\ Last.o = "duplicate"
    /\ Last.path # None
    /\ Last.got = Bytes("B", ChunkSize + 1)
    /\ DOMAIN pre.disk # {}
    /\ disk = pre.disk

\* the first attempt of the run that read the bytes c to their end
FirstOf(c) == CHOOSE k \in 1..Len(outcomes) :
                 outcomes[k].got = c /\ \A j \in 1..Len(outcomes) : outcomes[j].got = c => k <= j

\* C12: cross-URL dedup within one run.  At the end of a run that began in an
\* empty directory and in which every URL served an image body that was read to
\* its end (every attempt ended as stored or as a duplicate), the directory
\* holds as many image files as distinct contents were served, "hashes" has
\* that many keys, the first occurrence of each content was stored and holds
\* its file, and every later occurrence was a duplicate of the file name the
\* first was stored under.
C12_CrossUrlDedup ==
    (/\ pc = "done"
     /\ start = NoFiles
     /\ Len(outcomes) = Len(urls)
     /\ \A k \in 1..Len(outcomes) : outcomes[k].o \in {"stored", "duplicate"})
    => LET served == {outcomes[k].got : k \in 1..Len(outcomes)}
           images == {p \in DOMAIN disk \ {MANIFEST} : disk[p].kind = "bytes"}
       IN  /\ Cardinality(images) = Cardinality(served)
           /\ {disk[p] : p \in images} = served
           /\ Len(manifest.hashes) = Cardinality(served)
           /\ \A k \in 1..Len(outcomes) :
                /\ outcomes[k].o = "stored" <=> k = FirstOf(outcomes[k].got)
                /\ NameOf(manifest, Sha256(outcomes[k].got))
                      = Basename(outcomes[FirstOf(outcomes[k].got)].path)

\* manifests save_manifest may have written: with no, one and two entries
SavedManifests ==
    { EmptyManifest, Stored0,
      Record(Stored0, Sha256(Bytes("B", ChunkSize + 1)), <<"b", ".", "j">>) }

\* C13: load_manifest never raises and reads back what save_manifest wrote.
\* When main has loaded the manifest, it holds the empty default when the
\* manifest file was absent, could not be read or could not be parsed, and
\* the manifest that save_manifest wrote when the file holds one; and on any
\* directory, the file written for a manifest loads as that manifest.
C13_LoadManifest ==
    /\ (pc = "loop" /\ outcomes = << >>)
         => /\ ~Exists(start, MANIFEST) => manifest = EmptyManifest
            /\ (Exists(start, MANIFEST) /\ start[MANIFEST] \in {Truncated, Unreadable})
                 => manifest = EmptyManifest
            /\ \A m \in SavedManifests :
                 (Exists(start, MANIFEST) /\ start[MANIFEST] = JsonDump(m)) => manifest = m
    /\ \A m \in SavedManifests : load_manifest(Put(disk, MANIFEST, JsonDump(m))) = m

C13_Witness ==
    /\ pc = "loop"
    /\ Exists(start, MANIFEST)
    /\ start[MANIFEST] = Truncated
    /\ manifest = EmptyManifest

\* C14: sanitized names.  The path of every stored file is a file of the
\* output directory itself (it has no separator), and its name, which is the
\* name recorded in the manifest, is made of alphanumerics, "-", "_", "." and
\* " " only, but for the parentheses of the " (n)" suffix, whether the name came
\* from Content-Disposition or from the URL.
C14_SanitizedNames ==
    \A k \in Stored :
        LET name == Basename(outcomes[k].path)
        IN  /\ outcomes[k].path = name
            /\ \A j \in 1..Len(name) : SafeChar(name[j]) \/ name[j] \in {"(", ")"}
            /\ \E e \in Entries(manifest) : e[2] = name

\* s is a prefix of t
IsPrefix(s, t) == Len(s) <= Len(t) /\ SubSeq(t, 1, Len(s)) = s

\* C15: "files" is append-only and in fetch order.  In every state of an
\* attempt that began with a manifest, the "files" it began with is a prefix
\* of "files"; an attempt that ended as stored appended exactly the name of
\* its file; and between two attempts the manifest file holds the manifest in
\* memory, so the manifest of one URL is persisted before the next begins.
C15_FilesAppendOnly ==
    (IsManifest(pre.manifest) /\ IsManifest(manifest))
    => /\ IsPrefix(pre.manifest.files, manifest.files)
       /\ (AttemptEnded /\ Last.o = "stored")
            => manifest.files = Append(pre.manifest.files, Basename(Last.path))
       /\ AttemptEnded => load_manifest(disk) = manifest

\* the places <<a, b>> of the maximal runs of s that hold neither whitespace
\* nor a comma
IsSeparator(c) == c \in Whitespace \cup {","}
TokenRuns(s) ==
    {r \in (1..Len(s)) \X (1..Len(s)) :
        /\ r[1] <= r[2]
        /\ \A k \in r[1]..r[2] : ~IsSeparator(s[k])
        /\ r[1] = 1 \/ IsSeparator(s[r[1] - 1])
        /\ r[2] = Len(s) \/ IsSeparator(s[r[2] + 1])}

\* those runs, from left to right
MaximalTokens(s) ==
    [k \in 1..Cardinality(TokenRuns(s)) |->
        LET r == CHOOSE q \in TokenRuns(s) :
                    Cardinality({o \in TokenRuns(s) : o[1] < q[1]}) = k - 1
        IN  SubSeq(s, r[1], r[2])]

\* C16: URL tokenization.  The list of URLs main goes on with is the sequence of
\* the maximal non-empty substrings of the input line that hold neither
\* whitespace nor a comma, in the order of the line; and on a line that is
\* empty once stripped main exits, with the manifest not loaded, no attempt
\* made and the directory untouched (unless it is killed before), and on no
\* other line.
C16_Tokenization ==
    /\ manifest # NoManifest => urls = MaximalTokens(raw)
    /\ Strip(raw, Whitespace) = << >>
         => /\ pc \in {"input", "exit_empty", "crashed"}
            /\ manifest = NoManifest
            /\ outcomes = << >>
            /\ disk = start
    /\ pc = "exit_empty" => Strip(raw, Whitespace) = << >>

C16_Witness ==
    /\ pc = "loop"
    /\ raw = <<" ", "u", ",", "u">>
    /\ urls = << <<"u">>, <<"u">> >>

\* C17: the path chosen for an image is never the path of the manifest file.
\* In every state out_path is not MANIFEST, the manifest file does not hold
\* the bytes of an image, and every file an attempt stored still holds the
\* content stored in it.
C17_ManifestPathFree ==
    /\ out_path # MANIFEST
    /\ Exists(disk, MANIFEST) => disk[MANIFEST].kind # "bytes"
    /\ \A k \in Stored :
         Exists(disk, outcomes[k].path) /\ disk[outcomes[k].path] = outcomes[k].got

\* C18: no orphan files.  Between the attempts of a run that began in an empty
\* directory, every file of the directory other than the manifest file is
\* listed in manifest["files"].
C18_NoOrphans ==
    (AttemptEnded /\ start = NoFiles)
    => \A p \in DOMAIN disk \ {MANIFEST} :
         \E k \in 1..Len(manifest.files) : manifest.files[k] = p

\* C19: memory and disk agree between attempts.  Whenever main is between two
\* attempts (before the first, after the last, and after any attempt, a
\* failed one included), load_manifest on the directory gives the manifest
\* that main holds in memory.
C19_MemoryEqualsDisk ==
    pc = "loop" => load_manifest(disk) = manifest

\* C20: the manifest handed to respectful_fetch has its two members.  Whatever
\* the manifest file held at the start, the manifest main has loaded has a
\* "hashes" and a "files" member, and an attempt that read a whole image body
\* whose digest was not on record has recorded it.
C20_ManifestShape ==
    /\ manifest # NoManifest => IsManifest(manifest)
    /\ (AttemptEnded /\ Last.got # NoBytes /\ Last.o # "duplicate")
         => HasHash(manifest, Sha256(Last.got))

====
